---------------------------- MODULE Spec2Model ----------------------------
(***************************************************************************)
(* giter: branch and commit housekeeping over a repository and its         *)
(* submodules (src/giter/__init__.py).                                     *)
(*                                                                         *)
(* A Python string is a sequence of one-character strings, so that the     *)
(* substring tests, split(), slicing and path joins of the code are        *)
(* computed rather than assumed.  The external command runner `execute`    *)
(* is the environment: each call returns one of a bounded set of results.  *)
(***************************************************************************)
EXTENDS Naturals, Sequences, FiniteSets

(* ------------------------------ bounds -------------------------------- *)

\* longest submodule-status listing the runner returns
MaxSubmodules == 2

(* ----------------------- Python values and strings -------------------- *)

\* Python's None: a one-element sequence whose element is not a character
None == <<"None">>

\* str.split() separators
IsSpace(c) == c \in {" ", "\t", "\n"}

\* s[n:]
DropChars(s, n) == SubSeq(s, n + 1, Len(s))

\* `pat in s` for two strings
Contains(s, pat) ==
  \E i \in 1..(Len(s) + 1) :
     /\ i + Len(pat) - 1 <= Len(s)
     /\ SubSeq(s, i, i + Len(pat) - 1) = pat

\* s.split(): the maximal runs of non-whitespace characters, in order
RECURSIVE SplitFrom(_, _, _)
SplitFrom(s, i, cur) ==
  IF i > Len(s)
    THEN IF cur = <<>> THEN <<>> ELSE <<cur>>
    ELSE IF IsSpace(s[i])
           THEN IF cur = <<>> THEN SplitFrom(s, i + 1, <<>>)
                              ELSE <<cur>> \o SplitFrom(s, i + 1, <<>>)
           ELSE SplitFrom(s, i + 1, Append(cur, s[i]))

Split(s) == SplitFrom(s, 1, <<>>)

\* '\n'.join(lines)
RECURSIVE JoinLines(_)
JoinLines(lines) ==
  IF lines = <<>> THEN <<>>
  ELSE IF Len(lines) = 1 THEN lines[1]
  ELSE lines[1] \o <<"\n">> \o JoinLines(Tail(lines))

\* index of the last "/" of p, 0 if there is none (p.rfind('/') + 1)
RECURSIVE LastSlash(_, _)
LastSlash(p, i) ==
  IF i = 0 THEN 0 ELSE IF p[i] = "/" THEN i ELSE LastSlash(p, i - 1)

\* p.rstrip('/')
RECURSIVE RStripSlash(_)
RStripSlash(p) ==
  IF p # <<>> /\ p[Len(p)] = "/" THEN RStripSlash(SubSeq(p, 1, Len(p) - 1))
  ELSE p

\* os.path.join(a, b) on a POSIX system
path_join(a, b) ==
  IF b # <<>> /\ b[1] = "/" THEN b
  ELSE IF a = <<>> \/ a[Len(a)] = "/" THEN a \o b
  ELSE a \o <<"/">> \o b

\* os.path.dirname(p) on a POSIX system
path_dirname(p) ==
  LET head == SubSeq(p, 1, LastSlash(p, Len(p)))
  IN  IF head # <<>> /\ RStripSlash(head) # <<>> THEN RStripSlash(head)
      ELSE head

(* ------------------------------ literals ------------------------------ *)

s_git == <<"g","i","t">>
s_status == <<"s","t","a","t","u","s">>
s_dot == <<".">>
s_stash == <<"s","t","a","s","h">>
s_apply == <<"a","p","p","l","y">>
s_checkout == <<"c","h","e","c","k","o","u","t">>
s_b == <<"-","b">>
s_submodule == <<"s","u","b","m","o","d","u","l","e">>
s_add == <<"a","d","d">>
s_commit == <<"c","o","m","m","i","t">>
s_m == <<"-","m">>
s_branch == <<"b","r","a","n","c","h">>
s_tmp == <<"t","m","p">>
s_merge == <<"m","e","r","g","e">>
s_d == <<"-","d">>
s_sandbox == <<"/","s","a","n","d","b","o","x">>
s_quote == <<"\"">>
s_period == <<".">>

\* the markers the code looks for in the runner's text
m_not_staged == <<"n","o","t"," ","s","t","a","g","e","d">>
m_to_be_committed == <<"C","h","a","n","g","e","s"," ","t","o"," ","b","e"," ","c","o","m","m","i","t","t","e","d">>
m_untracked == <<"U","n","t","r","a","c","k","e","d"," ","f","i","l","e","s">>
m_on_branch == <<"O","n"," ","b","r","a","n","c","h">>
m_detached == <<"H","E","A","D"," ","d","e","t","a","c","h","e","d"," ","a","t">>
m_switched == <<"S","w","i","t","c","h","e","d"," ","t","o"," ","a"," ","n","e","w"," ","b","r","a","n","c","h">>

\* the warning texts
w_uncommitted == <<"T","h","e","r","e"," ","a","r","e"," ","u","n","c","o","m","m","i","t","t","e","d"," ","c","h","a","n","g","e","s"," ","i","n"," ","t","h","e"," ","r","e","p","o","s","i","t","o","r","y"," ","a","t"," ">>
w_branch == <<"C","o","u","l","d","n","'","t"," ","a","u","t","o","-","b","r","a","n","c","h"," ","t","h","e"," ","r","e","p","o"," ","a","t"," ">>
w_commit == <<"C","o","u","l","d"," ","n","o","t"," ","a","u","t","o","-","c","o","m","m","i","t"," ","c","h","a","n","g","e","s"," ","i","n"," ">>
w_recover == <<"C","o","u","l","d"," ","n","o","t"," ","r","e","c","o","v","e","r"," ","b","r","a","n","c","h"," ","f","r","o","m"," ","d","e","t","a","c","h","e","d"," ","h","e","a","d"," ","s","t","a","t","e",".">>

\* lines the runner may return
l_main == <<"O","n"," ","b","r","a","n","c","h"," ","m","a","i","n">>
l_feature == <<"O","n"," ","b","r","a","n","c","h"," ","f","e","a","t","u","r","e">>
l_dev == <<"O","n"," ","b","r","a","n","c","h"," ","d","e","v">>
l_det == <<"H","E","A","D"," ","d","e","t","a","c","h","e","d"," ","a","t"," ","a","b","c","1","2","3">>
l_unt == <<"U","n","t","r","a","c","k","e","d"," ","f","i","l","e","s",":">>
l_ns == <<"C","h","a","n","g","e","s"," ","n","o","t"," ","s","t","a","g","e","d"," ","f","o","r"," ","c","o","m","m","i","t",":">>
l_tbc == <<"C","h","a","n","g","e","s"," ","t","o"," ","b","e"," ","c","o","m","m","i","t","t","e","d",":">>
l_sw == <<"S","w","i","t","c","h","e","d"," ","t","o"," ","a"," ","n","e","w"," ","b","r","a","n","c","h"," ","'","f","e","a","t","u","r","e","'">>
l_fatal == <<"f","a","t","a","l",":"," ","n","o","t"," ","a"," ","g","i","t"," ","r","e","p","o","s","i","t","o","r","y">>
l_1file == <<"1"," ","f","i","l","e"," ","c","h","a","n","g","e","d">>
l_2ins == <<"2"," ","i","n","s","e","r","t","i","o","n","s","(","+",")">>
l_sm_foo == <<"+","a","b","c","1","2","3"," ","l","i","b","s","/","f","o","o"," ","(","h","e","a","d","s","/","m","a","i","n",")">>
l_sm_bar == <<" ","d","e","f","4","5","6"," ",".",".","/","b","a","r"," ","(","v","1",")">>
l_sm_short == <<"a","b","c","1","2","3">>
l_saved == <<"S","a","v","e","d"," ","w","o","r","k","i","n","g"," ","d","i","r","e","c","t","o","r","y">>
l_no_stash == <<"N","o"," ","s","t","a","s","h"," ","e","n","t","r","i","e","s"," ","f","o","u","n","d",".">>
m_fatal_exists == <<"f","a","t","a","l",":"," ","A"," ","b","r","a","n","c","h"," ","n","a","m","e","d"," ">>
m_fatal_lock == <<"f","a","t","a","l",":"," ","c","a","n","n","o","t"," ","l","o","c","k"," ","r","e","f"," ">>
m_exists == <<" ","a","l","r","e","a","d","y"," ","e","x","i","s","t","s",".">>
s_apos == <<"'">>
s_space == <<" ">>

\* arguments of the two entry points
b_main == <<"m","a","i","n">>
b_feature == <<"f","e","a","t","u","r","e">>
f_work == <<"/","w">>
msg_fix == <<"f","i","x">>

\* happyai.utility.reporoot, the folder used when none is given
reporoot == <<"/","r","e","p","o">>

(* --------------------------- the command runner ----------------------- *)

\* output streams of a status query
StatusOutputs ==
  { <<>>,
    <<l_main>>,
    <<l_feature>>,
    <<l_main, l_dev>>,
    <<l_det>>,
    <<l_main, l_unt>>,
    <<l_feature, l_ns>>,
    <<l_det, l_tbc>> }

\* output and error streams of a plan step
StepOutputs == { <<>>, <<l_1file, l_2ins>> }
ErrorStreams == { <<>>, <<l_sw>>, <<l_fatal>> }
StepResults == [output : StepOutputs, error : ErrorStreams]

\* output streams of the submodule-status query: listings of bounded length
SubmoduleLines == { l_sm_foo, l_sm_bar, l_sm_short }
SubmoduleOutputs ==
  UNION { [1..n -> SubmoduleLines] : n \in 0..MaxSubmodules }

\* one call of execute(args, folder, printerr) as it is recorded in cmds
Cmd(a, f, p) == [args |-> a, folder |-> f, printerr |-> p]

a_status == <<s_git, s_status>>
a_status_dot == <<s_git, s_status, s_dot>>
a_submodule_status == <<s_git, s_submodule, s_status>>
a_stash == <<s_git, s_stash>>
a_stash_apply == <<s_git, s_stash, s_apply>>
a_add == <<s_git, s_add, s_dot>>
a_branch_tmp == <<s_git, s_branch, s_tmp>>
a_merge_tmp == <<s_git, s_merge, s_tmp>>
a_delete_tmp == <<s_git, s_branch, s_d, s_tmp>>
a_checkout_b(b) == <<s_git, s_checkout, s_b, b>>
a_checkout(b) == <<s_git, s_checkout, b>>
a_commit(m) == <<s_git, s_commit, s_m, s_quote \o m \o s_quote>>

\* a plan step: a bare argument list, or a tuple (arguments, e_analyzer)
Bare(a) == [a |-> a, e_analyzer |-> "None"]
Tup(a, f) == [a |-> a, e_analyzer |-> f]

(* --------------------- the repository behind the runner --------------- *)

\* A folder's repository as far as branching goes: its branches, the branch
\* it is on (None on a detached head), whether the working tree has changes
\* and whether a stash entry exists.  Where no repository is modelled the
\* runner may return any of the results above.
NoRepo ==
  [modelled |-> FALSE, branches |-> {}, current |-> None, dirty |-> FALSE,
   stashed |-> FALSE]

Repos ==
  { r \in [modelled : {TRUE}, branches : SUBSET { b_main, b_feature },
           current : { b_main, b_feature, None }, dirty : BOOLEAN,
           stashed : BOOLEAN] :
      r.current # None => r.current \in r.branches }

\* what git status prints in the repository
RepoStatus(r) ==
  << IF r.current = None THEN l_det ELSE m_on_branch \o s_space \o r.current >>
    \o (IF r.dirty THEN << l_unt >> ELSE <<>>)

IsCheckoutB(a) == Len(a) = 4 /\ a[2] = s_checkout /\ a[3] = s_b

\* the branch named x cannot be stored next to a branch named b when x is
\* b followed by "/" and more: git keeps the two under one path
NestedUnder(x, b) ==
  /\ Len(b) < Len(x)
  /\ SubSeq(x, 1, Len(b)) = b
  /\ x[Len(b) + 1] = "/"

Created(x) ==
  [output |-> <<>>,
   error |-> << m_switched \o s_space \o s_apos \o x \o s_apos >>]
Exists(x) ==
  [output |-> <<>>,
   error |-> << m_fatal_exists \o s_apos \o x \o s_apos \o m_exists >>]
Refused(x) ==
  [output |-> <<>>, error |-> << m_fatal_lock \o s_apos \o x \o s_apos >>]

\* output and error streams of a plan step of _git_branch in the repository.
\* Creating a branch nested under an existing one is refused by a
\* repository that keeps branches as files and accepted by one that keeps
\* a plain set of names: both outcomes are allowed.
RepoResults(r, a) ==
  IF a = a_stash
    THEN { [output |-> IF r.dirty THEN << l_saved >> ELSE <<>>,
            error |-> <<>>] }
  ELSE IF a = a_stash_apply
    THEN IF r.stashed
           THEN { [output |-> RepoStatus([r EXCEPT !.dirty = TRUE]),
                   error |-> <<>>] }
           ELSE { [output |-> <<>>, error |-> << l_no_stash >>] }
  ELSE IF IsCheckoutB(a)
    THEN IF a[4] \in r.branches
           THEN { Exists(a[4]) }
         ELSE IF \E b \in r.branches : NestedUnder(a[4], b)
           THEN { Created(a[4]), Refused(a[4]) }
         ELSE { Created(a[4]) }
  ELSE { [output |-> <<>>, error |-> <<>>] }

\* the repository after the step that returned res
RepoAfter(r, a, res) ==
  IF ~r.modelled THEN r
  ELSE IF a = a_stash /\ r.dirty
    THEN [r EXCEPT !.dirty = FALSE, !.stashed = TRUE]
  ELSE IF a = a_stash_apply /\ r.stashed
    THEN [r EXCEPT !.dirty = TRUE]
  ELSE IF IsCheckoutB(a) /\ res = Created(a[4])
    THEN [r EXCEPT !.branches = @ \cup { a[4] }, !.current = a[4]]
  ELSE r

\* the results execute may return for a status query and for a plan step
StatusResults(r) == IF r.modelled THEN { RepoStatus(r) } ELSE StatusOutputs
PlanStepResults(r, a) ==
  IF r.modelled THEN RepoResults(r, a) ELSE StepResults

(* ------------------------- the functions of the code ------------------ *)

\* faulty variant: any status output at all counts as a change
HasChanges_any_output(output) == Len(output) > 0

\* has_changes of check_uncommitted_changes
HasChanges(output) ==
  \E k \in 1..Len(output) :
     \/ Contains(output[k], m_not_staged)
     \/ Contains(output[k], m_to_be_committed)
     \/ Contains(output[k], m_untracked)

IsOnBranchLine(l) == Contains(l, m_on_branch)

\* faulty variant: the first matching line decides when there are several
get_branch_name_first(output) ==
  LET matching == SelectSeq(output, IsOnBranchLine)
  IN  IF Len(matching) >= 1
        THEN LET parts == Split(matching[1]) IN parts[Len(parts)]
        ELSE None

\* the value get_branch_name returns for a status output
get_branch_name(output) ==
  LET matching == SelectSeq(output, IsOnBranchLine)
  IN  IF Len(matching) = 1
        THEN LET parts == Split(matching[1]) IN parts[Len(parts)]
        ELSE None

\* faulty variant: the line read is the second one
is_detached_raises_second(output) == Len(output) < 2

\* is_detached reads output[0]: an IndexError on the empty output
is_detached_raises(output) == Len(output) = 0
is_detached(output) == Contains(output[1], m_detached)

\* ls_submodules reads parts[1] of every line: an IndexError on a line of
\* fewer than two tokens
ls_submodules_raises(output) ==
  \E k \in 1..Len(output) : Len(Split(output[k])) < 2
ls_submodules(output) ==
  [k \in 1..Len(output) |-> DropChars(Split(output[k])[2], 3)]

\* faulty variant: an empty error stream is an error too
branch_error_analyzer_strict(res) ==
  ~(Len(res.error) > 0 /\ Contains(res.error[1], m_switched))

\* _branch_error_analyzer: TRUE means the step failed
branch_error_analyzer(res) ==
  IF Len(res.error) > 0
    THEN ~Contains(res.error[1], m_switched)
    ELSE FALSE

\* the value _commit_printer returns
commit_printer(res) == Len(res.error) = 0

\* what _commit_printer shows with msg.okay
commit_printer_msgs(res) ==
  IF Len(res.error) = 0 /\ Len(res.output) >= 2
    THEN << [kind |-> "okay", text |-> res.output[2]] >>
    ELSE <<>>

\* faulty variant: a non-empty error stream is an error for every step
StepError_default_too(atup, res) ==
  \/ Len(res.error) > 0
  \/ IF atup.e_analyzer = "_branch_error_analyzer"
       THEN branch_error_analyzer(res)
       ELSE atup.e_analyzer = "_commit_printer" /\ commit_printer(res)

\* `error` of _multi_execute for the step atup and its result res
StepError(atup, res) ==
  IF atup.e_analyzer = "_branch_error_analyzer" THEN branch_error_analyzer(res)
  ELSE IF atup.e_analyzer = "_commit_printer" THEN commit_printer(res)
  ELSE Len(res.error) > 0

\* faulty variant: the loop goes on after an error
ReturnsAtStep_never(err) == FALSE

\* _multi_execute leaves its loop when the step is an error
ReturnsAtStep(err) == err

\* faulty variant: the branch is created whatever the current branch is
NeedsBranch_always(name, b) == TRUE

\* _git_branch goes on to branch unless the folder is on the branch already
NeedsBranch(name, b) == name # b

\* faulty variant: the sandbox branch is created before the branch itself
git_branch_argslist_sandbox_first(b, stash, sandbox, changes) ==
  LET a1 == IF stash /\ changes THEN << Bare(a_stash) >> ELSE <<>>
      a2 == IF sandbox
              THEN Append(a1, Tup(a_checkout_b(b \o s_sandbox),
                                  "_branch_error_analyzer"))
              ELSE a1
      a3 == Append(a2, Tup(a_checkout_b(b), "_branch_error_analyzer"))
  IN  IF Len(a3) = 2 THEN Append(a3, Bare(a_stash_apply)) ELSE a3

\* argslist of _git_branch; changes is what check_uncommitted_changes
\* returned, which is asked only when stash is set
git_branch_argslist(b, stash, sandbox, changes) ==
  LET a1 == IF stash /\ changes THEN << Bare(a_stash) >> ELSE <<>>
      a2 == Append(a1, Tup(a_checkout_b(b), "_branch_error_analyzer"))
      a3 == IF sandbox
              THEN Append(a2, Tup(a_checkout_b(b \o s_sandbox),
                                  "_branch_error_analyzer"))
              ELSE a2
  IN  IF Len(a3) = 2 THEN Append(a3, Bare(a_stash_apply)) ELSE a3

\* argslist of _commit_repo
commit_repo_argslist(m) ==
  << Bare(a_add), Tup(a_commit(m), "_commit_printer") >>

\* faulty variant: the merge comes before the checkout
recover_argslist_merge_first(b) ==
  << Bare(a_branch_tmp), Bare(a_merge_tmp), Bare(a_checkout(b)),
     Bare(a_delete_tmp) >>

\* argslist of the detached-HEAD recovery of commit
recover_argslist(b) ==
  << Bare(a_branch_tmp), Bare(a_checkout(b)),
     Bare(a_merge_tmp), Bare(a_delete_tmp) >>

\* faulty variant: the result of a submodule is dropped
new_branch_error_dropped(r, err) == err

\* new_branch folds the result of a submodule into error
new_branch_error(r, err) == ~r \/ err

\* faulty variant: the parent is committed whatever happened before
CommitsParent_always(err) == TRUE

\* commit runs _commit_repo on the parent only without an error
CommitsParent(err) == ~err

(* -------------------------------- state -------------------------------- *)

VARIABLES
  pc,          \* where the program is: the function about to run
  op,          \* the entry point that was called: new_branch or commit
  folder,      \* folder of the entry point, reporoot when none was given
  branch,      \* branch of new_branch; the branch name commit reads first
  stash,       \* stash of new_branch
  sandbox,     \* sandbox of new_branch
  message,     \* message of commit
  error,       \* error of new_branch
  has_error,   \* has_error of commit
  submodules,  \* the list ls_submodules returned
  sm_output,   \* sm_output["output"] of ls_submodules
  idx,         \* position of the for loop in submodules
  subdir,      \* subdir of the loop body
  site,        \* the call the entry point is waiting for
  frame,       \* arguments of the running _git_branch / _commit_repo call
  branch_name, \* what get_branch_name returned to _git_branch
  st_output,   \* output["output"] of the last get_branch_name or is_detached
  has_changes, \* what check_uncommitted_changes returned to the running call
  status,      \* the status output check_uncommitted_changes read for it
  argslist,    \* argslist handed to _multi_execute
  error_msg,   \* error_msg handed to _multi_execute
  i,           \* position of the for loop of _multi_execute in argslist
  o,           \* o of _multi_execute: the result of the last step
  executed,    \* the steps the running _multi_execute has executed
  ret,         \* the value being returned to the entry point
  cmds,        \* the calls of execute, in order, and
  msgs,        \* the msg.warn / msg.std / msg.okay, in order, of the current
               \* pass of the entry point: the part before its loop, one
               \* iteration of the loop, or the part after the loop
  calls,       \* the finished _git_branch / _commit_repo / recovery calls
  result,      \* <<value>> once new_branch has returned
  fault,       \* the exception that ended the entry point, "" if none
  repo         \* the repository the runner works on, where one is modelled

top_vars == << op, folder, branch, stash, sandbox, message >>
loop_vars == << submodules, sm_output, idx, subdir >>
me_vars == << argslist, error_msg, i, o, executed >>
vars == << pc, op, folder, branch, stash, sandbox, message, error, has_error,
           submodules, sm_output, idx, subdir, site, frame, branch_name,
           st_output, has_changes,
           status, argslist, error_msg, i, o, executed, ret, cmds, msgs, calls,
           result, fault, repo >>

Branches == { b_main, b_feature }
Folders == { None, f_work }
Messages == { msg_fix }

NoFrame ==
  [fn |-> "", folder |-> None, branch |-> None, stash |-> FALSE,
   sandbox |-> FALSE, message |-> None]
NoResult == [output |-> <<>>, error |-> <<>>]

Warn(t) == [kind |-> "warn", text |-> t]
Std(t) == [kind |-> "std", text |-> t]

Init ==
  /\ pc = "idle"
  /\ op = ""
  /\ folder = None
  /\ branch = None
  /\ stash = FALSE
  /\ sandbox = FALSE
  /\ message = None
  /\ error = FALSE
  /\ has_error = FALSE
  /\ submodules = <<>>
  /\ sm_output = <<>>
  /\ idx = 0
  /\ subdir = None
  /\ site = ""
  /\ frame = NoFrame
  /\ branch_name = None
  /\ st_output = <<>>
  /\ has_changes = FALSE
  /\ status = <<>>
  /\ argslist = <<>>
  /\ error_msg = <<>>
  /\ i = 0
  /\ o = NoResult
  /\ executed = <<>>
  /\ ret = FALSE
  /\ cmds = <<>>
  /\ msgs = <<>>
  /\ calls = <<>>
  /\ result = <<>>
  /\ fault = ""
  /\ repo = NoRepo

\* check_uncommitted_changes(f) when the status query returns out
check_uncommitted_changes(f, out) ==
  LET fo == IF f = None THEN reporoot ELSE f
  IN  [ has_changes |-> HasChanges(out),
        output |-> out,
        cmd |-> Cmd(a_status_dot, fo, "False"),
        msgs |-> IF HasChanges(out)
                   THEN << Warn(w_uncommitted \o fo \o s_period),
                           Std(JoinLines(out)) >>
                   ELSE <<>> ]

\* the locals of a finished call are gone
FrameDone ==
  /\ calls' = Append(calls, [frame |-> frame, site |-> site, ret |-> ret])
  /\ frame' = NoFrame
  /\ site' = ""
  /\ branch_name' = None
  /\ st_output' = <<>>
  /\ has_changes' = FALSE
  /\ status' = <<>>
  /\ argslist' = <<>>
  /\ error_msg' = <<>>
  /\ i' = 0
  /\ o' = NoResult
  /\ executed' = <<>>

(* ------------------------------ _git_branch --------------------------- *)

git_branch ==
  /\ pc = "_git_branch"
  /\ \E out1 \in StatusResults(repo), out2 \in StatusResults(repo) :
       LET name == get_branch_name(out1)
           c1 == Append(cmds, Cmd(a_status, frame.folder, "False"))
           chk == check_uncommitted_changes(frame.folder, out2)
           changes == frame.stash /\ chk.has_changes
       IN  /\ branch_name' = name
           /\ st_output' = out1
           /\ IF NeedsBranch(name, frame.branch)
                THEN /\ has_changes' = changes
                     /\ status' = IF frame.stash THEN chk.output ELSE <<>>
                     /\ cmds' = IF frame.stash THEN Append(c1, chk.cmd) ELSE c1
                     /\ msgs' = IF frame.stash THEN msgs \o chk.msgs ELSE msgs
                     /\ argslist' = git_branch_argslist(frame.branch,
                                       frame.stash, frame.sandbox, changes)
                     /\ error_msg' = w_branch \o frame.folder \o s_period
                     /\ i' = 1
                     /\ pc' = "_multi_execute"
                     /\ UNCHANGED ret
                ELSE /\ has_changes' = FALSE
                     /\ status' = <<>>
                     /\ cmds' = c1
                     /\ ret' = TRUE
                     /\ pc' = "return"
                     /\ UNCHANGED << msgs, argslist, error_msg, i >>
  /\ UNCHANGED << repo, top_vars, loop_vars, error, has_error, site, frame, o,
                  executed, calls, result, fault >>

(* ---------------------------- _multi_execute -------------------------- *)

multi_execute_step ==
  /\ pc = "_multi_execute"
  /\ i <= Len(argslist)
  /\ \E res \in PlanStepResults(repo, argslist[i].a) :
       LET atup == argslist[i]
           err == StepError(atup, res)
           shown == IF atup.e_analyzer = "_commit_printer"
                      THEN commit_printer_msgs(res) ELSE <<>>
       IN  /\ cmds' = Append(cmds, Cmd(atup.a, frame.folder, "False"))
           /\ o' = res
           /\ repo' = RepoAfter(repo, atup.a, res)
           /\ executed' = Append(executed,
                            [a |-> atup.a, e_analyzer |-> atup.e_analyzer,
                             error_stream |-> res.error, error |-> err])
           /\ IF ReturnsAtStep(err)
                THEN /\ msgs' = msgs \o shown \o << Warn(error_msg) >>
                     /\ ret' = FALSE
                     /\ pc' = "return"
                     /\ UNCHANGED i
                ELSE /\ msgs' = msgs \o shown
                     /\ i' = i + 1
                     /\ UNCHANGED << ret, pc >>
  /\ UNCHANGED << top_vars, loop_vars, error, has_error, site, frame,
                  branch_name, st_output, has_changes, status, argslist,
                  error_msg, calls, result, fault >>

\* the else of the for loop: every step ran and none was an error
multi_execute_else ==
  /\ pc = "_multi_execute"
  /\ i > Len(argslist)
  /\ ret' = TRUE
  /\ pc' = "return"
  /\ UNCHANGED << repo, top_vars, loop_vars, error, has_error, site, frame,
                  branch_name, st_output, has_changes, status, me_vars, cmds,
                  msgs, calls, result, fault >>

(* ------------------------------ ls_submodules ------------------------- *)

\* ls_submodules(folder): the query runs without a folder
ls_submodules_call ==
  /\ pc = "ls_submodules"
  /\ \E out \in SubmoduleOutputs :
       /\ cmds' = Append(cmds, Cmd(a_submodule_status, None, "default"))
       /\ sm_output' = out
       /\ IF ls_submodules_raises(out)
            THEN /\ fault' = "IndexError"
                 /\ pc' = "raised"
                 /\ UNCHANGED << submodules, idx >>
            ELSE /\ submodules' = ls_submodules(out)
                 /\ idx' = 1
                 /\ pc' = "loop"
                 /\ UNCHANGED fault
  /\ UNCHANGED << repo, top_vars, subdir, error, has_error, site, frame,
                  branch_name, st_output, has_changes, status, me_vars, ret,
                  msgs, calls, result >>

(* -------------------------------- new_branch -------------------------- *)

GitBranchFrame(f, b, st, sb) ==
  [fn |-> "_git_branch", folder |-> f, branch |-> b, stash |-> st,
   sandbox |-> sb, message |-> None]

\* new_branch(b, f, st, sb) up to its call of _git_branch on the folder
new_branch(b, f, st, sb) ==
  /\ pc = "idle"
  /\ op' = "new_branch"
  /\ folder' = IF f = None THEN reporoot ELSE f
  /\ branch' = b
  /\ stash' = st
  /\ sandbox' = sb
  /\ error' = FALSE
  /\ frame' = GitBranchFrame(folder', b, st, sb)
  /\ site' = "parent"
  /\ pc' = "_git_branch"
  /\ UNCHANGED << repo, message, has_error, loop_vars, branch_name, st_output,
                  has_changes, status, me_vars, ret, cmds, msgs, calls,
                  result, fault >>

\* _git_branch on the folder has returned
new_branch_parent_returned ==
  /\ pc = "return"
  /\ op = "new_branch"
  /\ site = "parent"
  /\ FrameDone
  /\ IF ret
       THEN /\ pc' = "ls_submodules"
            /\ UNCHANGED << error, result >>
       ELSE /\ error' = TRUE
            /\ result' = << ~error' >>
            /\ pc' = "done"
  /\ UNCHANGED << repo, top_vars, loop_vars, has_error, ret, cmds, msgs, fault >>

\* the loop body: _git_branch on the next submodule
new_branch_submodule ==
  /\ pc = "loop"
  /\ op = "new_branch"
  /\ idx <= Len(submodules)
  /\ subdir' = path_join(folder, submodules[idx])
  /\ frame' = GitBranchFrame(subdir', branch, stash, sandbox)
  /\ site' = "submodule"
  /\ pc' = "_git_branch"
  /\ cmds' = <<>>
  /\ msgs' = <<>>
  /\ UNCHANGED << repo, top_vars, submodules, sm_output, idx, error, has_error,
                  branch_name, st_output, has_changes, status, me_vars, ret,
                  calls, result, fault >>

\* _git_branch on a submodule has returned
new_branch_submodule_returned ==
  /\ pc = "return"
  /\ op = "new_branch"
  /\ site = "submodule"
  /\ FrameDone
  /\ error' = new_branch_error(ret, error)
  /\ idx' = idx + 1
  /\ pc' = "loop"
  /\ UNCHANGED << repo, top_vars, submodules, sm_output, subdir, has_error, ret,
                  cmds, msgs, result, fault >>

\* the loop is over: return not error
new_branch_return ==
  /\ pc = "loop"
  /\ op = "new_branch"
  /\ idx > Len(submodules)
  /\ result' = << ~error >>
  /\ pc' = "done"
  /\ UNCHANGED << repo, top_vars, loop_vars, error, has_error, site, frame,
                  branch_name, st_output, has_changes, status, me_vars, ret,
                  cmds, msgs, calls, fault >>

(* ---------------------------- _commit_repo ---------------------------- *)

CommitRepoFrame(f, m) ==
  [fn |-> "_commit_repo", folder |-> f, branch |-> None, stash |-> FALSE,
   sandbox |-> FALSE, message |-> m]

commit_repo ==
  /\ pc = "_commit_repo"
  /\ \E out \in StatusOutputs :
       LET chk == check_uncommitted_changes(frame.folder, out)
       IN  /\ cmds' = Append(cmds, chk.cmd)
           /\ msgs' = msgs \o chk.msgs
           /\ has_changes' = chk.has_changes
           /\ status' = chk.output
           /\ IF chk.has_changes
                THEN /\ argslist' = commit_repo_argslist(frame.message)
                     /\ error_msg' = w_commit \o path_dirname(frame.folder)
                                        \o s_period
                     /\ i' = 1
                     /\ pc' = "_multi_execute"
                     /\ UNCHANGED ret
                ELSE /\ ret' = TRUE
                     /\ pc' = "return"
                     /\ UNCHANGED << argslist, error_msg, i >>
  /\ UNCHANGED << repo, top_vars, loop_vars, error, has_error, site, frame,
                  branch_name, st_output, o, executed, calls, result, fault >>

(* --------------------------------- commit ----------------------------- *)

\* commit(m, f) up to its call of ls_submodules
commit(m, f) ==
  /\ pc = "idle"
  /\ \E out \in StatusOutputs :
       /\ op' = "commit"
       /\ message' = m
       /\ folder' = IF f = None THEN reporoot ELSE f
       /\ cmds' = Append(cmds, Cmd(a_status, folder', "False"))
       /\ branch' = get_branch_name(out)
       /\ st_output' = out
  /\ has_error' = FALSE
  /\ pc' = "ls_submodules"
  /\ UNCHANGED << repo, stash, sandbox, error, loop_vars, site, frame, branch_name,
                  has_changes, status, me_vars, ret, msgs, calls, result,
                  fault >>

\* the loop body: _commit_repo on the next submodule
commit_submodule ==
  /\ pc = "loop"
  /\ op = "commit"
  /\ idx <= Len(submodules)
  /\ subdir' = path_join(folder, submodules[idx])
  /\ frame' = CommitRepoFrame(subdir', message)
  /\ site' = "submodule"
  /\ pc' = "_commit_repo"
  /\ cmds' = <<>>
  /\ msgs' = <<>>
  /\ st_output' = <<>>
  /\ UNCHANGED << repo, top_vars, submodules, sm_output, idx, error, has_error,
                  branch_name, has_changes, status, me_vars, ret, calls,
                  result, fault >>

\* _commit_repo on a submodule has returned
commit_submodule_returned ==
  /\ pc = "return"
  /\ op = "commit"
  /\ site = "submodule"
  /\ FrameDone
  /\ IF ~ret
       THEN /\ has_error' = TRUE
            /\ idx' = idx + 1
            /\ pc' = "loop"
       ELSE /\ pc' = "is_detached"
            /\ UNCHANGED << has_error, idx >>
  /\ UNCHANGED << repo, top_vars, submodules, sm_output, subdir, error, ret, cmds,
                  msgs, result, fault >>

RecoverFrame(f) ==
  [fn |-> "_multi_execute", folder |-> f, branch |-> None, stash |-> FALSE,
   sandbox |-> FALSE, message |-> None]

\* is_detached(subdir) and, when detached, the call of the recovery plan
is_detached_call ==
  /\ pc = "is_detached"
  /\ \E out \in StatusOutputs :
       /\ cmds' = Append(cmds, Cmd(a_status, subdir, "default"))
       /\ st_output' = out
       /\ IF is_detached_raises(out)
            THEN /\ fault' = "IndexError"
                 /\ pc' = "raised"
                 /\ UNCHANGED << idx, frame, site, argslist, error_msg, i >>
            ELSE IF is_detached(out)
              THEN /\ argslist' = recover_argslist(branch)
                   /\ error_msg' = w_recover
                   /\ i' = 1
                   /\ frame' = RecoverFrame(subdir)
                   /\ site' = "recover"
                   /\ pc' = "_multi_execute"
                   /\ UNCHANGED << idx, fault >>
              ELSE /\ idx' = idx + 1
                   /\ pc' = "loop"
                   /\ UNCHANGED << frame, site, argslist, error_msg, i,
                                   fault >>
  /\ UNCHANGED << repo, top_vars, submodules, sm_output, subdir, error, has_error,
                  branch_name, has_changes, status, o, executed, ret, msgs,
                  calls, result >>

\* faulty variant: a failed recovery ends the loop
commit_recover_returned_stops ==
  /\ pc = "return"
  /\ op = "commit"
  /\ site = "recover"
  /\ FrameDone
  /\ has_error' = (IF ~ret THEN TRUE ELSE has_error)
  /\ idx' = (IF ~ret THEN Len(submodules) + 1 ELSE idx + 1)
  /\ pc' = "loop"
  /\ UNCHANGED << repo, top_vars, submodules, sm_output, subdir, error, ret, cmds,
                  msgs, result, fault >>

\* the recovery plan has returned
commit_recover_returned ==
  /\ pc = "return"
  /\ op = "commit"
  /\ site = "recover"
  /\ FrameDone
  /\ has_error' = (IF ~ret THEN TRUE ELSE has_error)
  /\ idx' = idx + 1
  /\ pc' = "loop"
  /\ UNCHANGED << repo, top_vars, submodules, sm_output, subdir, error, ret, cmds,
                  msgs, result, fault >>

\* the loop is over: _commit_repo on the folder, unless there was an error
commit_parent ==
  /\ pc = "loop"
  /\ op = "commit"
  /\ idx > Len(submodules)
  /\ IF CommitsParent(has_error)
       THEN /\ frame' = CommitRepoFrame(folder, message)
            /\ site' = "parent"
            /\ cmds' = <<>>
            /\ msgs' = <<>>
            /\ st_output' = <<>>
            /\ pc' = "_commit_repo"
       ELSE /\ pc' = "done"
            /\ UNCHANGED << frame, site, cmds, msgs, st_output >>
  /\ UNCHANGED << repo, top_vars, loop_vars, error, has_error, branch_name,
                  has_changes, status, me_vars, ret, calls, result, fault >>

\* _commit_repo on the folder has returned; commit returns nothing
commit_parent_returned ==
  /\ pc = "return"
  /\ op = "commit"
  /\ site = "parent"
  /\ FrameDone
  /\ pc' = "done"
  /\ UNCHANGED << repo, top_vars, loop_vars, error, has_error, ret, cmds, msgs,
                  result, fault >>

(* ----------------------------- specification -------------------------- *)

Next ==
  \/ \E b \in Branches, f \in Folders, st \in BOOLEAN, sb \in BOOLEAN :
       new_branch(b, f, st, sb)
  \/ \E m \in Messages, f \in Folders : commit(m, f)
  \/ git_branch
  \/ commit_repo
  \/ multi_execute_step
  \/ multi_execute_else
  \/ ls_submodules_call
  \/ new_branch_parent_returned
  \/ new_branch_submodule
  \/ new_branch_submodule_returned
  \/ new_branch_return
  \/ commit_submodule
  \/ commit_submodule_returned
  \/ is_detached_call
  \/ commit_recover_returned
  \/ commit_parent
  \/ commit_parent_returned

Spec == Init /\ [][Next]_vars

(* ------------- _git_branch called twice on one repository ------------- *)

RepoFolders == { f_work, reporoot }

InitRepo ==
  /\ pc = "idle"
  /\ op = ""
  /\ folder = None
  /\ branch = None
  /\ stash = FALSE
  /\ sandbox = FALSE
  /\ message = None
  /\ error = FALSE
  /\ has_error = FALSE
  /\ submodules = <<>>
  /\ sm_output = <<>>
  /\ idx = 0
  /\ subdir = None
  /\ site = ""
  /\ frame = NoFrame
  /\ branch_name = None
  /\ st_output = <<>>
  /\ has_changes = FALSE
  /\ status = <<>>
  /\ argslist = <<>>
  /\ error_msg = <<>>
  /\ i = 0
  /\ o = NoResult
  /\ executed = <<>>
  /\ ret = FALSE
  /\ cmds = <<>>
  /\ msgs = <<>>
  /\ calls = <<>>
  /\ result = <<>>
  /\ fault = ""
  /\ repo \in Repos

\* _git_branch(f, b, st, sb) is called on the repository
git_branch_first(b, f, st, sb) ==
  /\ pc = "idle"
  /\ repo.modelled
  /\ op' = "_git_branch"
  /\ folder' = f
  /\ branch' = b
  /\ stash' = st
  /\ sandbox' = sb
  /\ frame' = GitBranchFrame(f, b, st, sb)
  /\ site' = "first"
  /\ pc' = "_git_branch"
  /\ UNCHANGED << repo, message, error, has_error, loop_vars, branch_name,
                  st_output, has_changes, status, me_vars, ret, cmds, msgs,
                  calls, result, fault >>

\* it has returned and is called again at once with the same arguments
git_branch_second ==
  /\ pc = "return"
  /\ op = "_git_branch"
  /\ site = "first"
  /\ calls' = Append(calls, [frame |-> frame, site |-> site, ret |-> ret])
  /\ site' = "second"
  /\ branch_name' = None
  /\ st_output' = <<>>
  /\ has_changes' = FALSE
  /\ status' = <<>>
  /\ argslist' = <<>>
  /\ error_msg' = <<>>
  /\ i' = 0
  /\ o' = NoResult
  /\ executed' = <<>>
  /\ pc' = "_git_branch"
  /\ UNCHANGED << repo, top_vars, loop_vars, error, has_error, frame, ret,
                  cmds, msgs, result, fault >>

\* the second call has returned
git_branch_second_returned ==
  /\ pc = "return"
  /\ op = "_git_branch"
  /\ site = "second"
  /\ FrameDone
  /\ result' = << ret >>
  /\ pc' = "done"
  /\ UNCHANGED << repo, top_vars, loop_vars, error, has_error, ret, cmds,
                  msgs, fault >>

NextRepo ==
  \/ \E b \in Branches, f \in RepoFolders, st \in BOOLEAN, sb \in BOOLEAN :
       git_branch_first(b, f, st, sb)
  \/ git_branch
  \/ multi_execute_step
  \/ multi_execute_else
  \/ git_branch_second
  \/ git_branch_second_returned

SpecRepo == InitRepo /\ [][NextRepo]_vars

(* ------------------------------ properties ---------------------------- *)

\* a plan of _git_branch is being executed, or has just returned
InGitBranchPlan == frame.fn = "_git_branch" /\ argslist # <<>>

IsStash(x) == x.a = a_stash
IsStashApply(x) == x.a = a_stash_apply
IsPrimary(x) == x.a = a_checkout_b(frame.branch)
IsSandbox(x) == x.a = a_checkout_b(frame.branch \o s_sandbox)

\* C1: in every plan of _git_branch a stash-apply step is preceded by a
\* stash step of the same plan.
C1_ApplyOnlyAfterStash ==
  InGitBranchPlan =>
    \A k \in 1..Len(argslist) :
       IsStashApply(argslist[k]) =>
         \E j \in 1..(k - 1) : IsStash(argslist[j])

\* the steps of the running plan, with the error stream each returned
ErrorStreamsEmpty ==
  \A k \in 1..Len(executed) : executed[k].error_stream = <<>>

\* C2: _commit_repo on a folder with uncommitted changes returns true exactly
\* when the stage step and the commit step both ran and both returned an
\* empty error stream, and warns when it returns false.
C2_CommitTrueIffNoErrorOutput ==
  (pc = "return" /\ frame.fn = "_commit_repo" /\ has_changes) =>
    /\ ret <=> (Len(executed) = 2 /\ ErrorStreamsEmpty)
    /\ ~ret => (msgs # <<>> /\ msgs[Len(msgs)] = Warn(error_msg))

\* the branch-create steps the running _git_branch has executed
BranchSteps ==
  { k \in 1..Len(executed) :
      executed[k].e_analyzer = "_branch_error_analyzer" }

SaysSwitched(es) == Len(es) > 0 /\ Contains(es[1], m_switched)

\* C3 as stated: a branch-create step is an error unless the first line of its
\* error stream contains "Switched to a new branch", the empty error stream
\* included.
C3_ErrorUnlessSwitched ==
  frame.fn = "_git_branch" =>
    \A k \in BranchSteps :
       executed[k].error <=> ~SaysSwitched(executed[k].error_stream)

\* C3: a branch-create step is an error exactly when its error stream is not
\* empty and its first line does not contain "Switched to a new branch"; after
\* such an error _git_branch returns false and no later step is executed.
C3_ErrorIffOtherErrorText ==
  frame.fn = "_git_branch" =>
    \A k \in BranchSteps :
       /\ executed[k].error <=>
            ( /\ executed[k].error_stream # <<>>
              /\ ~SaysSwitched(executed[k].error_stream) )
       /\ executed[k].error =>
            (k = Len(executed) /\ pc = "return" /\ ~ret)

\* a branch-create step returned an empty error stream and the plan went on
C3_Witness ==
  /\ frame.fn = "_git_branch"
  /\ \E k \in BranchSteps :
       /\ executed[k].error_stream = <<>>
       /\ ~executed[k].error
       /\ k < Len(executed)

\* a _commit_repo on a submodule, or a recovery plan, has returned false
SubmoduleFailed ==
  \E k \in 1..Len(calls) :
     calls[k].site \in {"submodule", "recover"} /\ ~calls[k].ret

IsStageOrCommit(c) == c.args \in { a_add, a_commit(message) }

\* C4: in commit, once a _commit_repo on a submodule or a recovery plan has
\* failed, _commit_repo is not called on the parent folder and no add or
\* commit command is executed in the parent folder.
C4_NoParentCommitAfterFailure ==
  (op = "commit" /\ SubmoduleFailed) =>
    /\ ~(frame.fn = "_commit_repo" /\ site = "parent")
    /\ \A k \in 1..Len(calls) : calls[k].site # "parent"
    /\ \A k \in 1..Len(cmds) :
         cmds[k].folder = folder => ~IsStageOrCommit(cmds[k])

\* commit has ended after a _commit_repo failed in one submodule and a
\* recovery failed in another
C4_Witness ==
  /\ op = "commit"
  /\ pc = "done"
  /\ \E k \in 1..Len(calls) : calls[k].site = "submodule" /\ ~calls[k].ret
  /\ \E k \in 1..Len(calls) : calls[k].site = "recover" /\ ~calls[k].ret

\* the number of msg.warn(error_msg) of the current pass
RECURSIVE CountWarn(_, _)
CountWarn(ms, t) ==
  IF ms = <<>> THEN 0
  ELSE (IF ms[1] = Warn(t) THEN 1 ELSE 0) + CountWarn(Tail(ms), t)

\* C5: _multi_execute executes the steps in list order and stops at the first
\* error: what it has executed is a prefix of argslist in which only the last
\* step can be an error; it returns false, after exactly one warning, exactly
\* when the last executed step is an error, and true, without a warning,
\* exactly when every step was executed and none is an error.
C5_StopsAtFirstError ==
  (pc \in {"_multi_execute", "return"} /\ argslist # <<>>) =>
    LET n == Len(executed) IN
    /\ n <= Len(argslist)
    /\ n <= Len(cmds)
    /\ \A k \in 1..n :
         /\ executed[k].a = argslist[k].a
         /\ cmds[Len(cmds) - n + k] = Cmd(argslist[k].a, frame.folder, "False")
         /\ executed[k].error => k = n
    /\ (n > 0 /\ executed[n].error) => (pc = "return" /\ ~ret)
    /\ pc = "_multi_execute" => (i = n + 1 /\ CountWarn(msgs, error_msg) = 0)
    /\ pc = "return" =>
         /\ ~ret <=> (n > 0 /\ executed[n].error)
         /\ ret <=> (n = Len(argslist) /\ \A k \in 1..n : ~executed[k].error)
         /\ CountWarn(msgs, error_msg) = (IF ret THEN 0 ELSE 1)

\* a plan was abandoned in the middle: steps ran before the error and steps
\* were left over after it
C5_Witness ==
  /\ pc = "return"
  /\ ~ret
  /\ Len(executed) >= 2
  /\ Len(executed) < Len(argslist)

\* C6: when stash is set, the folder is not on the branch and uncommitted
\* changes were found, the plan of _git_branch has a stash step before the
\* branch-create step and a stash-apply step after it, and after the sandbox
\* step when there is one.
C6_StashAroundBranchCreate ==
  (InGitBranchPlan /\ frame.stash /\ has_changes) =>
    \E j \in 1..Len(argslist), k \in 1..Len(argslist),
       m \in 1..Len(argslist) :
       /\ IsStash(argslist[j])
       /\ IsPrimary(argslist[k])
       /\ IsStashApply(argslist[m])
       /\ j < k
       /\ k < m
       /\ \A n \in 1..Len(argslist) : IsSandbox(argslist[n]) => n < m

\* the calls of _git_branch that new_branch has to make on the submodules
SubmoduleFrames ==
  [k \in 1..Len(submodules) |->
     GitBranchFrame(path_join(folder, submodules[k]), branch, stash, sandbox)]

\* C7: when _git_branch fails on the folder, new_branch calls it on no
\* submodule and returns false; otherwise it calls _git_branch once on every
\* listed submodule, in listing order and with the flags it was given, and
\* returns true exactly when every one of these calls returned true.
C7_NewBranchAggregates ==
  (op = "new_branch" /\ pc = "done") =>
    /\ calls # <<>>
    /\ calls[1].frame = GitBranchFrame(folder, branch, stash, sandbox)
    /\ ~calls[1].ret => (Len(calls) = 1 /\ result = << FALSE >>)
    /\ calls[1].ret =>
         /\ Len(calls) = 1 + Len(submodules)
         /\ \A k \in 1..Len(submodules) :
              calls[k + 1].frame = SubmoduleFrames[k]
         /\ result = << \A k \in 1..Len(calls) : calls[k].ret >>

\* new_branch went on to the second submodule after the first one failed
C7_Witness ==
  /\ op = "new_branch"
  /\ pc = "done"
  /\ Len(calls) = 3
  /\ ~calls[2].ret
  /\ calls[3].frame.folder # calls[2].frame.folder

\* C8: when get_branch_name returns the target branch, _git_branch returns
\* true, builds no plan, shows nothing, and the status query that read the
\* branch name is the only command of the call.
C8_OnBranchIsNoOp ==
  (frame.fn = "_git_branch" /\ branch_name = frame.branch) =>
    /\ pc = "return"
    /\ ret
    /\ argslist = <<>>
    /\ executed = <<>>
    /\ msgs = <<>>
    /\ cmds = << Cmd(a_status, frame.folder, "False") >>

\* _git_branch was called with stash and sandbox on a submodule that is on
\* the branch
C8_Witness ==
  /\ frame.fn = "_git_branch"
  /\ branch_name = frame.branch
  /\ frame.stash
  /\ frame.sandbox
  /\ site = "submodule"
  /\ pc = "return"

NoChangeMarker(output) ==
  \A k \in 1..Len(output) :
     /\ ~Contains(output[k], m_not_staged)
     /\ ~Contains(output[k], m_to_be_committed)
     /\ ~Contains(output[k], m_untracked)

\* C9: when no line of the status output contains one of the three markers,
\* _commit_repo returns true and the status query is its only command; it
\* executes add or commit only when the status output had a marker.
C9_NoChangesNoCommit ==
  (frame.fn = "_commit_repo" /\ pc \in {"_multi_execute", "return"}) =>
    /\ NoChangeMarker(status) =>
         /\ pc = "return"
         /\ ret
         /\ argslist = <<>>
         /\ cmds = << Cmd(a_status_dot, frame.folder, "False") >>
    /\ (\E k \in 1..Len(cmds) : IsStageOrCommit(cmds[k])) =>
         ~NoChangeMarker(status)

\* _commit_repo has returned on a folder whose status has lines but no marker
C9_Witness ==
  /\ frame.fn = "_commit_repo"
  /\ pc = "return"
  /\ status # <<>>
  /\ NoChangeMarker(status)
  /\ ret

\* C10: the plan of _git_branch has a sandbox step exactly when sandbox is
\* set; the sandbox step comes after the branch-create step, and it is
\* executed only after the branch-create step was executed without error.
C10_SandboxAfterPrimary ==
  InGitBranchPlan =>
    /\ (\E k \in 1..Len(argslist) : IsSandbox(argslist[k])) <=> frame.sandbox
    /\ \A k \in 1..Len(argslist) :
         IsSandbox(argslist[k]) =>
           \E j \in 1..(k - 1) : IsPrimary(argslist[j])
    /\ \A k \in 1..Len(executed) :
         IsSandbox(executed[k]) =>
           \E j \in 1..(k - 1) :
              IsPrimary(executed[j]) /\ ~executed[j].error

\* the sandbox step of a plan was executed
C10_Witness ==
  /\ InGitBranchPlan
  /\ frame.sandbox
  /\ \E k \in 1..Len(executed) : IsSandbox(executed[k])

\* the listing of ls_submodules is complete
Listed == pc \in {"loop", "_git_branch", "_commit_repo", "is_detached"}

p_libs_foo == <<"l","i","b","s","/","f","o","o">>

\* C11: ls_submodules returns, for every line of the submodule-status output
\* and in the order of the lines, the path of the line, its second token: the
\* line "+abc123 libs/foo (heads/main)" gives "libs/foo", and no line gives the
\* empty list.
C11_ListsSubmodulePaths ==
  Listed =>
    /\ Len(submodules) = Len(sm_output)
    /\ \A k \in 1..Len(sm_output) :
         /\ submodules[k] = Split(sm_output[k])[2]
         /\ sm_output[k] = l_sm_foo => submodules[k] = p_libs_foo

\* the steps the running plan has executed with an e_analyzer
ClassifiedSteps ==
  { k \in 1..Len(executed) : executed[k].e_analyzer # "None" }

\* what the e_analyzer of an executed step returns for its error stream
AnalyzerSaysError(x) ==
  IF x.e_analyzer = "_branch_error_analyzer"
    THEN x.error_stream # <<>> /\ ~SaysSwitched(x.error_stream)
    ELSE x.error_stream = <<>>

\* C12: a step with an e_analyzer is an error exactly when the e_analyzer
\* returns true for its result, whether its error stream is empty or not; a
\* branch-create step whose error stream is "Switched to a new branch
\* 'feature'" is no error, and the plan goes on to the next step.
C12_AnalyzerDecides ==
  (pc \in {"_multi_execute", "return"} /\ argslist # <<>>) =>
    \A k \in ClassifiedSteps :
       /\ executed[k].error <=> AnalyzerSaysError(executed[k])
       /\ ( /\ executed[k].e_analyzer = "_branch_error_analyzer"
            /\ executed[k].error_stream = << l_sw >> ) =>
            /\ ~executed[k].error
            /\ IF pc = "_multi_execute" THEN i > k
                                        ELSE (k < Len(executed) \/ ret)

\* a branch-create step returned the text of a successful switch and the next
\* step of the plan was executed
C12_Witness ==
  /\ frame.fn = "_git_branch"
  /\ \E k \in ClassifiedSteps :
       /\ executed[k].error_stream = << l_sw >>
       /\ ~executed[k].error
       /\ k < Len(executed)

\* the lines of a status output that contain "On branch"
OnBranchLines(out) ==
  { k \in 1..Len(out) : Contains(out[k], m_on_branch) }

\* the last run of non-whitespace characters of the line l
LastToken(l) ==
  LET j == CHOOSE n \in 1..Len(l) :
             ~IsSpace(l[n]) /\ \A m \in (n + 1)..Len(l) : IsSpace(l[m])
      b == CHOOSE n \in 1..j :
             /\ \A m \in n..j : ~IsSpace(l[m])
             /\ n = 1 \/ IsSpace(l[n - 1])
  IN  SubSeq(l, b, j)

\* the branch name a status output stands for
NameIn(out) ==
  IF Cardinality(OnBranchLines(out)) = 1
    THEN LastToken(out[CHOOSE k \in OnBranchLines(out) : TRUE])
    ELSE None

\* C13: get_branch_name returns the last whitespace-delimited token of the
\* line that contains "On branch" when the status output has exactly one such
\* line, and None when it has none or several: "On branch main" gives "main",
\* "On branch main" with "On branch dev" gives None.
C13_BranchNameOfStatus ==
  /\ (frame.fn = "_git_branch" /\ pc \in {"_multi_execute", "return"}) =>
       /\ branch_name = NameIn(st_output)
       /\ st_output = << l_main >> => branch_name = b_main
       /\ st_output = << l_main, l_dev >> => branch_name = None
  /\ (op = "commit" /\ pc = "ls_submodules") =>
       /\ branch = NameIn(st_output)
       /\ st_output = << l_main >> => branch = b_main
       /\ st_output = << l_main, l_dev >> => branch = None

\* get_branch_name read two "On branch" lines and returned None
C13_Witness ==
  /\ frame.fn = "_git_branch"
  /\ pc = "_multi_execute"
  /\ st_output = << l_main, l_dev >>
  /\ branch_name = None

\* the last call of execute is the query of is_detached / of ls_submodules
LastIsDetachedQuery ==
  /\ op = "commit"
  /\ cmds # <<>>
  /\ cmds[Len(cmds)] = Cmd(a_status, subdir, "default")
LastIsSubmoduleQuery ==
  /\ cmds # <<>>
  /\ cmds[Len(cmds)].args = a_submodule_status

HasShortLine(out) == \E k \in 1..Len(out) : Len(Split(out[k])) < 2

\* C14 as stated: an entry point ends in an exception only in is_detached on
\* an empty status output.
C14_OnlyIsDetachedRaises ==
  fault # "" => (LastIsDetachedQuery /\ st_output = <<>>)

\* C14: new_branch and commit end in an exception exactly in two cases,
\* is_detached on an empty status output and ls_submodules on an output line
\* of fewer than two tokens; every other result of the runner ends in a
\* boolean outcome, a failed plan in false after a warning.
C14_RaisesOnlyOnShortOutput ==
  /\ fault # "" <=> pc = "raised"
  /\ pc = "raised" => (LastIsDetachedQuery \/ LastIsSubmoduleQuery)
  /\ LastIsDetachedQuery => (pc = "raised" <=> st_output = <<>>)
  /\ LastIsSubmoduleQuery => (pc = "raised" <=> HasShortLine(sm_output))
  /\ (op = "new_branch" /\ pc = "done") => result \in { <<TRUE>>, <<FALSE>> }
  /\ (pc = "return" /\ ~ret) =>
       (msgs # <<>> /\ msgs[Len(msgs)] = Warn(error_msg))

\* new_branch has ended in the exception of ls_submodules
C14_Witness ==
  /\ op = "new_branch"
  /\ pc = "raised"
  /\ LastIsSubmoduleQuery
  /\ HasShortLine(sm_output)

IsSubmoduleCall(c) == c.site = "submodule"

\* the commands of is_detached and of the recovery plan in the folder f
IsRecoveryCmd(c, f) ==
  \/ c = Cmd(a_status, f, "default")
  \/ /\ c.folder = f
     /\ c.args \in { a_branch_tmp, a_checkout(branch), a_merge_tmp,
                     a_delete_tmp }

RecoveryCommands ==
  << a_branch_tmp, <<s_git, s_checkout, branch>>, a_merge_tmp,
     <<s_git, s_branch, s_d, s_tmp>> >>

\* the state part of C16
RecoveryInOrder ==
  /\ site = "recover" =>
       /\ Len(argslist) = 4
       /\ \A k \in 1..4 :
            argslist[k] = [a |-> RecoveryCommands[k], e_analyzer |-> "None"]
       /\ frame.folder = subdir
       /\ calls # <<>>
       /\ calls[Len(calls)].site = "submodule"
       /\ calls[Len(calls)].ret
       /\ calls[Len(calls)].frame.folder = subdir
       /\ st_output # <<>>
       /\ Contains(st_output[1], m_detached)
       /\ Len(executed) <= Len(cmds)
       /\ \A k \in 1..Len(executed) :
            /\ cmds[Len(cmds) - Len(executed) + k] =
                 Cmd(RecoveryCommands[k], subdir, "False")
            /\ k > 1 => executed[k - 1].error_stream = <<>>
  /\ op = "commit" =>
       \A k \in 1..Len(cmds) :
          (cmds[k].args = a_status /\ cmds[k].printerr = "False") =>
            (k = 1 /\ cmds[k].folder = folder /\ calls = <<>>)

\* C16: the recovery plan runs only for a detached submodule whose
\* _commit_repo returned true; its commands are branch tmp, checkout of the
\* parent's branch, merge tmp, branch -d tmp, in this order and each only
\* after an empty error stream of the one before; the branch name is read
\* from the parent once, as the first command of commit, and does not change
\* while the submodules are processed.
C16_RecoveryPlan ==
  /\ []RecoveryInOrder
  /\ [][op = "commit" => branch' = branch]_vars

\* the whole recovery plan ran in the second submodule
C16_Witness ==
  /\ site = "recover"
  /\ pc = "return"
  /\ ret
  /\ Len(executed) = 4
  /\ idx = 2

\* C17: every command runs with an explicit folder, which is the folder of
\* the entry point or that folder joined with a listed submodule path.
C17_ExplicitFolder ==
  \A k \in 1..Len(cmds) :
     /\ cmds[k].folder # None
     /\ \/ cmds[k].folder = folder
        \/ \E j \in 1..Len(submodules) :
              cmds[k].folder = path_join(folder, submodules[j])

\* both calls of _git_branch on the repository have returned
BothReturned == op = "_git_branch" /\ pc = "done"

\* the commands of the second call: from its status query on
SecondCallStart ==
  CHOOSE k \in 1..Len(cmds) :
     /\ cmds[k].args = a_status
     /\ \A j \in (k + 1)..Len(cmds) : cmds[j].args # a_status
SecondCallCmds == SubSeq(cmds, SecondCallStart, Len(cmds))

IsBranchingCmd(c) ==
  c.args = a_stash \/ c.args = a_stash_apply \/ IsCheckoutB(c.args)

SecondCallIsNoOp ==
  /\ calls[2].ret
  /\ \A k \in 1..Len(SecondCallCmds) : ~IsBranchingCmd(SecondCallCmds[k])

\* C18 as stated: after a call of _git_branch that returned true, an
\* immediately following call with the same arguments returns true and
\* issues no stash, branch-create or stash-apply command.
C18_SecondCallNoOp ==
  (BothReturned /\ calls[1].ret) => SecondCallIsNoOp

\* C18, amended: the same for calls with sandbox not set.  With sandbox set
\* the first call leaves the folder on the sandbox branch, so the second
\* one does not find it on the branch.
C18_SecondCallNoOpWithoutSandbox ==
  (BothReturned /\ calls[1].ret /\ ~calls[1].frame.sandbox) =>
     SecondCallIsNoOp

\* the first call created the branch, with the changes stashed and applied
\* again, and the second call followed
C18_Witness ==
  /\ BothReturned
  /\ calls[1].ret
  /\ ~calls[1].frame.sandbox
  /\ \E k \in 1..Len(cmds) : cmds[k].args = a_checkout_b(branch)
  /\ \E k \in 1..Len(cmds) : cmds[k].args = a_stash_apply
  /\ calls[2].ret


IsCheckout(c) == Len(c.args) = 3 /\ c.args[2] = s_checkout

\* C19: no checkout command of a recovery plan has None as its target, also
\* when get_branch_name returned None for the parent folder.
C19_CheckoutTargetDetermined ==
  op = "commit" =>
    \A k \in 1..Len(cmds) : IsCheckout(cmds[k]) => cmds[k].args[3] # None

=============================================================================
